---- MODULE Spec2Model ----
(***************************************************************************)
(* Model of strokeprediction.py: a straight-line script that loads a      *)
(* table, removes duplicates, scales, resamples, selects features,        *)
(* splits, tunes one XGBoost model and evaluates ten classifiers twice.   *)
(*                                                                         *)
(* Three specifications share the definitions below.                      *)
(*   Spec      the whole script, statement by statement.  Data is kept as *)
(*             what the control flow depends on: the number of feature    *)
(*             columns, the label categories, which estimator object was  *)
(*             fit on which part of the data, the registries and the key  *)
(*             sets of the metrics mappings.                              *)
(*   SpecLoad  lines 29-40 on concrete small tables (rows, row index,     *)
(*             Class column).                                             *)
(*   SpecEval  evaluate_model (lines 104-154) and best_model (188-191) on *)
(*             concrete label vectors and predictions.                    *)
(* The numerical libraries are not part of the repository: what a fit     *)
(* learns, what a model predicts, which rows the resampler keeps and      *)
(* which scores the selectors compute are inputs drawn from small sets.   *)
(***************************************************************************)
EXTENDS Integers, Sequences, FiniteSets, TLC

VARIABLES
    pc,                 \* the statement the script executes next
    err,                \* the statement whose call raised, or "none"
    started,            \* stage numbers of the statements executed so far
    nFeatures,          \* len(features.columns)
    classes_,           \* label_encoder.classes_ (sorted categories)
    survivors,          \* y_encoded values that have rows after fit_resample
    y_resampled,        \* the labels present in y_resampled (line 49)
    top_features,       \* line 57
    selected_features,  \* line 61
    train_columns,      \* X_train.columns
    test_columns,       \* X_test.columns
    fits,               \* per estimator object: number of fit calls so far
    fitSources,         \* per estimator object: data parts passed to fit
    predictedUnfit,     \* estimator objects asked to predict before any fit
    fitsAtStart,        \* per pass: fit count of every entry when it began
    models,             \* the registry of line 159
    models2,            \* the registry literal of line 215
    metrics,            \* keys of the mapping returned at line 175, in order
    eval_metrics,       \* keys of the mapping returned at line 215, in order
    best_model,         \* line 188
    csv,                \* SpecLoad: the rows of the input file
    df,                 \* SpecLoad: the table, rows with their index
    df_scaled,          \* SpecLoad: the scaled table
    y_test,             \* SpecEval: test labels
    y_pred,             \* SpecEval: predictions of the model last evaluated
    metrics_dict,       \* SpecEval: metrics_dict of the running call
    loopIndex,          \* SpecEval: position of the for loop of line 110
    highlighted         \* SpecEval: names printed with the highest mark

vars == << pc, err, started, nFeatures, classes_, survivors, y_resampled,
           top_features, selected_features, train_columns, test_columns,
           fits, fitSources, predictedUnfit, fitsAtStart, models, models2,
           metrics, eval_metrics, best_model, csv, df, df_scaled,
           y_test, y_pred, metrics_dict, loopIndex, highlighted >>

loadVars == << csv, df, df_scaled >>
evalVars == << y_test, y_pred, metrics_dict, loopIndex, highlighted >>

(***************************************************************************)
(* Bounds of the model and constants of the program.                      *)
(***************************************************************************)
MaxFeatures == 62
MaxCategories == 3
MaxShift == 1

TopN == 60
KBest == 40
NIter == 30
NSplits == 5

Min(a, b) == IF a <= b THEN a ELSE b

SetMin(S) == CHOOSE x \in S : \A z \in S : x <= z

RECURSIVE SortedSeq(_)
SortedSeq(S) ==
    IF S = {} THEN << >>
    ELSE << SetMin(S) >> \o SortedSeq(S \ {SetMin(S)})

Range(s) == { s[i] : i \in DOMAIN s }

\* position of x in the sequence s, 0 when absent (first occurrence)
IndexOf(s, x) ==
    IF x \in Range(s) THEN SetMin({ i \in DOMAIN s : s[i] = x }) ELSE 0

(***************************************************************************)
(* Estimator objects.  An object is a pair: 0 for the objects the script  *)
(* binds to a name of its own, 1 and 2 for the estimators constructed in  *)
(* the registry literals of lines 159-172 and 215-226.                    *)
(***************************************************************************)
ModelNames ==
    << "Decision Tree", "Random Forest", "Naive Bayes", "Logistic Regression",
       "K-Nearest Neighbour", "SVM", "XGBoost", "LightGBM",
       "Passive Aggressive", "Neural Network" >>

\* hasattr(model, "predict_proba"): every class but PassiveAggressiveClassifier
HasPredictProba(name) == name # "Passive Aggressive"

scalerObj == << 0, "scaler" >>
xgbObj == << 0, "xgb" >>
kBestObj == << 0, "k_best" >>
cvCloneObj == << 0, "xgb_random.cv" >>
best_xgb == << 0, "best_xgb" >>

\* the second registry built from the estimators of the first
RegistryObjShared(reg, name) == IF name = "XGBoost" THEN best_xgb ELSE << 1, name >>

RegistryObj(reg, name) == IF name = "XGBoost" THEN best_xgb ELSE << reg, name >>

Registry(reg) ==
    [ i \in 1..Len(ModelNames) |->
        [ name |-> ModelNames[i],
          obj |-> RegistryObj(reg, ModelNames[i]),
          proba |-> HasPredictProba(ModelNames[i]) ] ]

Objects ==
    { scalerObj, xgbObj, kBestObj, cvCloneObj, best_xgb }
        \cup { << r, ModelNames[i] >> : r \in 1..2, i \in 1..Len(ModelNames) }

\* a Python dict literal or a sequence of insertions: a later insertion under
\* an existing key keeps the key's place
RECURSIVE DictKeys(_)
DictKeys(names) ==
    IF names = << >> THEN << >>
    ELSE LET rest == DictKeys(SubSeq(names, 1, Len(names) - 1))
             last == names[Len(names)]
         IN IF last \in Range(rest) THEN rest ELSE Append(rest, last)

(***************************************************************************)
(* Stages of the pipeline, by statement.                                  *)
(***************************************************************************)
StageOf(p) ==
    CASE p \in { "load", "dedup" } -> 1
      [] p = "scale" -> 2
      [] p \in { "encode", "resample" } -> 3
      [] p \in { "select_a", "select_b" } -> 4
      [] p = "split" -> 5
      [] p \in { "tune", "refit" } -> 6
      [] p \in { "models", "eval1", "best", "eval2", "plots" } -> 7
      [] OTHER -> 8

\* the statements with the scaler moved behind the split
AfterScaleLate(p) ==
    CASE p = "load" -> "dedup"
      [] p = "dedup" -> "encode"
      [] p = "encode" -> "resample"
      [] p = "resample" -> "select_a"
      [] p = "select_a" -> "select_b"
      [] p = "select_b" -> "split"
      [] p = "split" -> "scale"
      [] p = "scale" -> "tune"
      [] p = "tune" -> "refit"
      [] p = "refit" -> "models"
      [] p = "models" -> "eval1"
      [] p = "eval1" -> "best"
      [] p = "best" -> "eval2"
      [] p = "eval2" -> "plots"
      [] OTHER -> "done"

\* the statement that follows p in the file
After(p) ==
    CASE p = "load" -> "dedup"
      [] p = "dedup" -> "scale"
      [] p = "scale" -> "encode"
      [] p = "encode" -> "resample"
      [] p = "resample" -> "select_a"
      [] p = "select_a" -> "select_b"
      [] p = "select_b" -> "split"
      [] p = "split" -> "tune"
      [] p = "tune" -> "refit"
      [] p = "refit" -> "models"
      [] p = "models" -> "eval1"
      [] p = "eval1" -> "best"
      [] p = "best" -> "eval2"
      [] p = "eval2" -> "plots"
      [] OTHER -> "done"

\* an exception at module level ends the script
Raise(p) ==
    /\ pc' = "error"
    /\ err' = p
    /\ started' = Append(started, StageOf(p))

Goto(p) ==
    /\ pc' = After(p)
    /\ err' = err
    /\ started' = Append(started, StageOf(p))

\* estimator.fit(...) with the given data parts among its arguments
FitOn(f, obj, n) == [ f EXCEPT ![obj] = @ + n ]
SourceOn(s, obj, parts) == [ s EXCEPT ![obj] = @ \cup parts ]

(***************************************************************************)
(* Pure helpers of the selection stage (lines 56-61).                     *)
(***************************************************************************)
\* importances.sort_values(ascending=False).index for F columns: the order
\* is decided by the fitted model; the model draws it from the rotations
Rotation(F, r) == [ i \in 1..F |-> ((i - 1 + r) % F) + 1 ]

\* index[:60]: a slice stops at the end of the index
TopSlice(order, n) == SubSeq(order, 1, Min(n, Len(order)))

\* k_best.get_support(): k positions of the n columns, those of the k
\* highest F-values; the model draws them as k consecutive positions
SupportMask(n, k, s) == { ((s + j) % n) + 1 : j \in 0..(k - 1) }

\* top_features[mask]: boolean indexing keeps the order of the index
RECURSIVE Masked(_, _)
Masked(seq, mask) ==
    IF seq = << >> THEN << >>
    ELSE LET n == Len(seq)
             rest == Masked(SubSeq(seq, 1, n - 1), mask)
         IN IF n \in mask THEN Append(rest, seq[n]) ELSE rest

(***************************************************************************)
(* One evaluation pass, lines 110-112 / 198-200: for every entry, in      *)
(* order, model.fit(X_train, y_train) and then model.predict(X_test).     *)
(* The pass state is the fit counts, the fit sources, the objects that    *)
(* were asked to predict while unfit, and the keys inserted so far.       *)
(***************************************************************************)
\* the record stored under the literal key "model_name"
EvaluateEntryLiteralKey(st, entry) ==
    LET fitted == FitOn(st.fits, entry.obj, 1)
    IN [ fits |-> fitted,
         sources |-> SourceOn(st.sources, entry.obj, { "train" }),
         unfit |-> IF fitted[entry.obj] = 0
                   THEN st.unfit \cup { entry.obj } ELSE st.unfit,
         keys |-> Append(st.keys, "model_name") ]

EvaluateEntry(st, entry) ==
    LET fitted == FitOn(st.fits, entry.obj, 1)
    IN [ fits |-> fitted,
         sources |-> SourceOn(st.sources, entry.obj, { "train" }),
         unfit |-> IF fitted[entry.obj] = 0
                   THEN st.unfit \cup { entry.obj } ELSE st.unfit,
         keys |-> Append(st.keys, entry.name) ]

RECURSIVE EvaluatePass(_, _)
EvaluatePass(st, registry) ==
    IF registry = << >> THEN st
    ELSE EvaluatePass(EvaluateEntry(st, Head(registry)), Tail(registry))

PassStart == [ fits |-> fits, sources |-> fitSources,
               unfit |-> predictedUnfit, keys |-> << >> ]

FitCounts(registry) == [ i \in DOMAIN registry |-> fits[registry[i].obj] ]

(***************************************************************************)
(* The script.                                                            *)
(***************************************************************************)
dataVars == << nFeatures, classes_, survivors, y_resampled, top_features,
               selected_features, train_columns, test_columns >>
fitVars == << fits, fitSources, predictedUnfit, fitsAtStart >>
registryVars == << models, models2, metrics, eval_metrics, best_model >>

Init ==
    /\ pc = "load"
    /\ err = "none"
    /\ started = << >>
    /\ nFeatures = 0
    /\ classes_ = << >>
    /\ survivors = {}
    /\ y_resampled = {}
    /\ top_features = << >>
    /\ selected_features = << >>
    /\ train_columns = << >>
    /\ test_columns = << >>
    /\ fits = [ o \in Objects |-> 0 ]
    /\ fitSources = [ o \in Objects |-> {} ]
    /\ predictedUnfit = {}
    /\ fitsAtStart = [ p \in 1..2 |-> << >> ]
    /\ models = << >>
    /\ models2 = << >>
    /\ metrics = << >>
    /\ eval_metrics = << >>
    /\ best_model = "none"
    /\ csv = << >>
    /\ df = << >>
    /\ df_scaled = << >>
    /\ y_test = << >>
    /\ y_pred = << >>
    /\ metrics_dict = << >>
    /\ loopIndex = 0
    /\ highlighted = << >>

\* line 29: pd.read_csv raises when the file is missing or cannot be parsed
Load ==
    /\ pc = "load"
    /\ \/ /\ Raise("load")
          /\ UNCHANGED nFeatures
       \/ /\ Goto("load")
          /\ nFeatures' \in 1..MaxFeatures
    /\ UNCHANGED << classes_, survivors, y_resampled, top_features,
                    selected_features, train_columns, test_columns >>
    /\ UNCHANGED << fitVars, registryVars, loadVars, evalVars >>

\* lines 32-33: drop_duplicates, features = every column but Class
Dedup ==
    /\ pc = "dedup"
    /\ Goto("dedup")
    /\ UNCHANGED << dataVars, fitVars, registryVars, loadVars, evalVars >>

\* lines 34-37: the scaler is fit on the whole deduplicated feature table
Scale ==
    /\ pc = "scale"
    /\ Goto("scale")
    /\ fits' = FitOn(fits, scalerObj, 1)
    /\ fitSources' = SourceOn(fitSources, scalerObj, { "full" })
    /\ UNCHANGED << predictedUnfit, fitsAtStart >>
    /\ UNCHANGED << dataVars, registryVars, loadVars, evalVars >>

\* lines 39-42: classes_ is the sorted list of the categories of the Class
\* column; the number of categories of the file is drawn here, where they are
\* first read, and the categories are named 1..k
Encode ==
    /\ pc = "encode"
    /\ Goto("encode")
    /\ \E k \in 1..MaxCategories : classes_' = SortedSeq(1..k)
    /\ UNCHANGED << nFeatures, survivors, y_resampled, top_features,
                    selected_features, train_columns, test_columns >>
    /\ UNCHANGED << fitVars, registryVars, loadVars, evalVars >>

\* line 49: LabelEncoder().fit_transform maps the sorted labels that are
\* present to 0..n-1
Reencode(labels) == 0..(Cardinality(labels) - 1)

\* lines 47-49: fit_resample raises ValueError for a single class and for a
\* class with too few rows for its neighbours; otherwise the cleaning step may
\* remove every row of a class, and the script re-encodes what is left
Resample ==
    /\ pc = "resample"
    /\ \/ /\ Raise("resample")
          /\ UNCHANGED << survivors, y_resampled >>
       \/ /\ Len(classes_) >= 2
          /\ Goto("resample")
          /\ \E kept \in SUBSET (0..(Len(classes_) - 1)) :
                /\ Cardinality(kept) >= 2
                /\ survivors' = kept
                /\ y_resampled' = Reencode(kept)
    /\ UNCHANGED << nFeatures, classes_, top_features, selected_features,
                    train_columns, test_columns >>
    /\ UNCHANGED << fitVars, registryVars, loadVars, evalVars >>

\* lines 54-58
SelectA ==
    /\ pc = "select_a"
    /\ Goto("select_a")
    /\ fits' = FitOn(fits, xgbObj, 1)
    /\ fitSources' = SourceOn(fitSources, xgbObj, { "full" })
    /\ \E r \in 0..MaxShift :
          top_features' = TopSlice(Rotation(nFeatures, r), TopN)
    /\ UNCHANGED << predictedUnfit, fitsAtStart >>
    /\ UNCHANGED << nFeatures, classes_, survivors, y_resampled,
                    selected_features, train_columns, test_columns >>
    /\ UNCHANGED << registryVars, loadVars, evalVars >>

\* lines 59-63: SelectKBest(k=40).fit_transform on n columns.  With k > n
\* scikit-learn before 1.2 raises ValueError ("k should be <= n_features")
\* and later releases warn and keep every column: both outcomes are kept.
SelectB ==
    /\ pc = "select_b"
    /\ LET n == Len(top_features)
       IN \/ /\ KBest > n
             /\ Raise("select_b")
             /\ UNCHANGED << fits, fitSources, selected_features >>
          \/ /\ KBest > n
             /\ Goto("select_b")
             /\ fits' = FitOn(fits, kBestObj, 1)
             /\ fitSources' = SourceOn(fitSources, kBestObj, { "full" })
             /\ selected_features' = top_features
          \/ /\ KBest <= n
             /\ Goto("select_b")
             /\ fits' = FitOn(fits, kBestObj, 1)
             /\ fitSources' = SourceOn(fitSources, kBestObj, { "full" })
             /\ \E s \in 0..MaxShift :
                   selected_features' =
                       Masked(top_features, SupportMask(n, KBest, s))
    /\ UNCHANGED << predictedUnfit, fitsAtStart >>
    /\ UNCHANGED << nFeatures, classes_, survivors, y_resampled, top_features,
                    train_columns, test_columns >>
    /\ UNCHANGED << registryVars, loadVars, evalVars >>

\* lines 68-70: both parts are rows of X_subset
Split ==
    /\ pc = "split"
    /\ Goto("split")
    /\ train_columns' = selected_features
    /\ test_columns' = selected_features
    /\ UNCHANGED << nFeatures, classes_, survivors, y_resampled, top_features,
                    selected_features >>
    /\ UNCHANGED << fitVars, registryVars, loadVars, evalVars >>

\* lines 85-92: 30 candidates x 5 folds, each a clone fit on four folds of
\* the train split; then best_estimator_ is a clone refit on the train split.
\* When every fit fails the search raises.
Tune ==
    /\ pc = "tune"
    /\ \/ /\ Raise("tune")
          /\ UNCHANGED << fits, fitSources >>
       \/ /\ Goto("tune")
          /\ fits' = FitOn(FitOn(fits, cvCloneObj, NIter * NSplits), best_xgb, 1)
          /\ fitSources' = SourceOn(SourceOn(fitSources, cvCloneObj, { "train" }),
                                    best_xgb, { "train" })
    /\ UNCHANGED << predictedUnfit, fitsAtStart >>
    /\ UNCHANGED << dataVars, registryVars, loadVars, evalVars >>

\* the data parts among the arguments of the fit call of lines 95-99
RefitArguments == { "train", "test" }

\* lines 95-99: best_xgb.fit(X_train, y_train, eval_set=[(X_test, y_test)])
Refit ==
    /\ pc = "refit"
    /\ Goto("refit")
    /\ fits' = FitOn(fits, best_xgb, 1)
    /\ fitSources' = SourceOn(fitSources, best_xgb, RefitArguments)
    /\ UNCHANGED << predictedUnfit, fitsAtStart >>
    /\ UNCHANGED << dataVars, registryVars, loadVars, evalVars >>

\* lines 159-172
DefineModels ==
    /\ pc = "models"
    /\ Goto("models")
    /\ models' = Registry(1)
    /\ UNCHANGED << models2, metrics, eval_metrics, best_model >>
    /\ UNCHANGED << dataVars, fitVars, loadVars, evalVars >>

\* line 175, the first definition of evaluate_model
Evaluate1 ==
    /\ pc = "eval1"
    /\ Goto("eval1")
    /\ LET out == EvaluatePass(PassStart, models)
       IN /\ fits' = out.fits
          /\ fitSources' = out.sources
          /\ predictedUnfit' = out.unfit
          /\ metrics' = DictKeys(out.keys)
    /\ fitsAtStart' = [ fitsAtStart EXCEPT ![1] = FitCounts(models) ]
    /\ UNCHANGED << models, models2, eval_metrics, best_model >>
    /\ UNCHANGED << dataVars, loadVars, evalVars >>

\* lines 188-191: max() returns a key of metrics; which one is decided by the
\* accuracies (SpecEval)
Best ==
    /\ pc = "best"
    /\ Goto("best")
    /\ best_model' \in Range(metrics)
    /\ UNCHANGED << models, models2, metrics, eval_metrics >>
    /\ UNCHANGED << dataVars, fitVars, loadVars, evalVars >>

\* lines 215-226: the registry literal is built, then the second definition
\* of evaluate_model runs over it
Evaluate2 ==
    /\ pc = "eval2"
    /\ Goto("eval2")
    /\ models2' = Registry(2)
    /\ LET out == EvaluatePass(PassStart, Registry(2))
       IN /\ fits' = out.fits
          /\ fitSources' = out.sources
          /\ predictedUnfit' = out.unfit
          /\ eval_metrics' = DictKeys(out.keys)
    /\ fitsAtStart' = [ fitsAtStart EXCEPT ![2] = FitCounts(Registry(2)) ]
    /\ UNCHANGED << models, metrics, best_model >>
    /\ UNCHANGED << dataVars, loadVars, evalVars >>

\* lines 231-266: the charts; predict_proba of every entry of models that
\* has it
Plots ==
    /\ pc = "plots"
    /\ Goto("plots")
    /\ predictedUnfit' = predictedUnfit \cup
          { models[i].obj : i \in { j \in DOMAIN models :
                                      models[j].proba /\ fits[models[j].obj] = 0 } }
    /\ UNCHANGED << fits, fitSources, fitsAtStart >>
    /\ UNCHANGED << dataVars, registryVars, loadVars, evalVars >>

Next ==
    \/ Load
    \/ Dedup
    \/ Scale
    \/ Encode
    \/ Resample
    \/ SelectA
    \/ SelectB
    \/ Split
    \/ Tune
    \/ Refit
    \/ DefineModels
    \/ Evaluate1
    \/ Best
    \/ Evaluate2
    \/ Plots

Spec == Init /\ [][Next]_vars

(***************************************************************************)
(* SpecLoad: lines 29-40 on concrete tables.  A row of the file is a pair *)
(* of one feature value and a Class category; a row of a DataFrame also   *)
(* carries its index label.                                               *)
(***************************************************************************)
MaxRows == 3
MaxValue == 1

FileRows == (0..MaxValue) \X (1..MaxCategories)

\* pd.read_csv: a RangeIndex 0..n-1
ReadCsv(rows) ==
    [ k \in 1..Len(rows) |->
        [ index |-> k - 1, x |-> rows[k][1], Class |-> rows[k][2] ] ]

\* DataFrame.drop_duplicates(): a row is dropped when an earlier row has the
\* same values in every column; the rows kept keep their index labels
RECURSIVE DropDuplicates(_)
DropDuplicates(frame) ==
    IF frame = << >> THEN << >>
    ELSE LET n == Len(frame)
             last == frame[n]
             seen == \E j \in 1..(n - 1) :
                        /\ frame[j].x = last.x
                        /\ frame[j].Class = last.Class
             rest == DropDuplicates(SubSeq(frame, 1, n - 1))
         IN IF seen THEN rest ELSE Append(rest, last)

RECURSIVE SumSeq(_)
SumSeq(s) == IF s = << >> THEN 0 ELSE Head(s) + SumSeq(Tail(s))

\* StandardScaler.fit_transform of one column, as an array without index.
\* (x - mean) / std is kept exact as the pair of n*x - sum and
\* n*sum(x^2) - sum^2, the numerator and the squared denominator times n^2.
FitTransform(column) ==
    LET n == Len(column)
        total == SumSeq(column)
        squares == SumSeq([ k \in 1..n |-> column[k] * column[k] ])
    IN [ k \in 1..n |-> << n * column[k] - total, n * squares - total * total >> ]

\* line 36 with a Series on the right: pandas aligns it on the index labels,
\* and a label without a partner gets NaN (-1 here)
AssignSeries(scaled, frame) ==
    [ k \in DOMAIN scaled |->
        LET at == { j \in DOMAIN frame : frame[j].index = scaled[k].index }
        IN [ scaled[k] EXCEPT !.Class =
               IF at = {} THEN -1 ELSE frame[CHOOSE j \in at : TRUE].Class ] ]

\* line 36: df_scaled['Class'] = df['Class'].values, an array: by position
AssignClass(scaled, frame) ==
    [ k \in DOMAIN scaled |-> [ scaled[k] EXCEPT !.Class = frame[k].Class ] ]

\* lines 33-36: the scaled array becomes a frame with a new RangeIndex
ScaledFrame(frame) ==
    LET features == [ k \in DOMAIN frame |-> frame[k].x ]
        array == FitTransform(features)
        fresh == [ k \in DOMAIN array |->
                     [ index |-> k - 1, x |-> array[k], Class |-> 0 ] ]
    IN AssignClass(fresh, frame)

InitLoad ==
    /\ Init
    /\ pc = "load"

\* line 29
LoadTable ==
    /\ pc = "load"
    /\ \E n \in 1..MaxRows :
          \E rows \in [ 1..n -> FileRows ] :
             /\ csv' = rows
             /\ df' = ReadCsv(rows)
    /\ pc' = "dedup"
    /\ UNCHANGED << err, started, df_scaled >>
    /\ UNCHANGED << dataVars, fitVars, registryVars, evalVars >>

\* line 32
DedupTable ==
    /\ pc = "dedup"
    /\ df' = DropDuplicates(df)
    /\ pc' = "scale"
    /\ UNCHANGED << err, started, csv, df_scaled >>
    /\ UNCHANGED << dataVars, fitVars, registryVars, evalVars >>

\* lines 33-37
ScaleTable ==
    /\ pc = "scale"
    /\ df_scaled' = ScaledFrame(df)
    /\ pc' = "encode"
    /\ UNCHANGED << err, started, csv, df >>
    /\ UNCHANGED << dataVars, fitVars, registryVars, evalVars >>

NextLoad ==
    \/ LoadTable
    \/ DedupTable
    \/ ScaleTable

SpecLoad == InitLoad /\ [][NextLoad]_vars

(***************************************************************************)
(* C10.  After deduplication and scaling the table has exactly one row    *)
(* per distinct row of the file, in the order of first occurrence; the    *)
(* Class of the k-th scaled row is the Class of the k-th deduplicated     *)
(* row, whose feature value the k-th scaled value is computed from; and   *)
(* deduplicating the deduplicated table removes nothing.                  *)
(***************************************************************************)
C10_DedupScaleAligned ==
    pc = "encode" =>
        /\ Len(df_scaled) = Cardinality(Range(csv))
        /\ Len(df) = Len(df_scaled)
        /\ \A k \in DOMAIN df :
              LET p == df[k].index + 1
              IN /\ p \in DOMAIN csv
                 /\ csv[p] = << df[k].x, df[k].Class >>
                 /\ \A j \in 1..(p - 1) : csv[j] # csv[p]
        /\ \A k, l \in DOMAIN df : k < l => df[k].index < df[l].index
        /\ \A k \in DOMAIN df_scaled :
              /\ df_scaled[k].Class = df[k].Class
              /\ df_scaled[k].index = k - 1
              /\ df_scaled[k].x[1] =
                    Len(df) * df[k].x - SumSeq([ j \in DOMAIN df |-> df[j].x ])
        /\ DropDuplicates(df) = df

\* a duplicate was removed from the middle of the file, so that the index of
\* the deduplicated table has a gap, and the rows after the gap differ in Class
C10_Witness ==
    /\ pc = "encode"
    /\ Len(df) < Len(csv)
    /\ \E k \in DOMAIN df :
          /\ df[k].index # k - 1
          /\ \E j \in DOMAIN df : df[j].Class # df[k].Class

(***************************************************************************)
(* SpecEval: evaluate_model (lines 104-154) and the summary of lines      *)
(* 188-191 on concrete labels.  Labels are the re-encoded integers of     *)
(* line 49; the split is stratified, and both parts hold every label of   *)
(* y_resampled.                                                           *)
(***************************************************************************)
TestRows == 3
MaxModels == 3

\* np.unique: the sorted distinct values
Unique(y) == SortedSeq(Range(y))

\* the original category (an entry of label_encoder.classes_) of a label of
\* y_resampled: line 49 numbers the surviving y_encoded values in their order
Category(label) == classes_[SortedSeq(survivors)[label + 1] + 1]

\* label_binarize(y, classes=classes): one indicator column per class, but a
\* single column, the indicator of classes[1] (the second class), for two
\* classes, and a single column of zeros for one class
Indicator(y, c) == [ r \in DOMAIN y |-> IF y[r] = c THEN 1 ELSE 0 ]

AllColumns(y, classes) == [ i \in DOMAIN classes |-> Indicator(y, classes[i]) ]

LabelBinarize(y, classes) ==
    CASE Len(classes) = 1 -> << [ r \in DOMAIN y |-> 0 ] >>
      [] Len(classes) = 2 -> << Indicator(y, classes[2]) >>
      [] OTHER -> AllColumns(y, classes)

\* accuracy_score times the number of test rows
Correct(truth, pred) == Cardinality({ r \in DOMAIN truth : truth[r] = pred[r] })

\* confusion_matrix(y_true, y_pred) without labels=: the labels are the sorted
\* values that occur in y_true or y_pred
ConfusionLabels(truth, pred) == SortedSeq(Range(truth) \cup Range(pred))

ConfusionMatrix(truth, pred) ==
    LET labels == ConfusionLabels(truth, pred)
    IN [ i \in DOMAIN labels |->
           [ j \in DOMAIN labels |->
               Cardinality({ r \in DOMAIN truth :
                               truth[r] = labels[i] /\ pred[r] = labels[j] }) ] ]

\* lines 121-127: curve i pairs column i of y_test_bin with column i of
\* y_score; column i of predict_proba is the probability of the i-th label the
\* model was fit on.  A curve is kept as the pair it is computed from.
RocCurves(entry, truth, trainLabels) ==
    IF entry.proba
    THEN LET y_test_bin == LabelBinarize(truth, Unique(truth))
         IN [ i \in DOMAIN y_test_bin |->
                [ truth |-> y_test_bin[i], scoreOf |-> trainLabels[i] ] ]
    ELSE << >>

\* metrics_dict[model_name] = {...}
DictPut(dict, name, value) ==
    IF \E i \in DOMAIN dict : dict[i].name = name
    THEN [ i \in DOMAIN dict |-> IF dict[i].name = name THEN value ELSE dict[i] ]
    ELSE Append(dict, value)

\* max(metrics, key=lambda m: metrics[m]["accuracy"]) as a later maximum
\* replaced the earlier one (>= where max() compares with >)
RECURSIVE LastMaxKey(_)
LastMaxKey(dict) ==
    IF Len(dict) = 1 THEN dict[1]
    ELSE LET rest == LastMaxKey(SubSeq(dict, 1, Len(dict) - 1))
             last == dict[Len(dict)]
         IN IF last.accuracy >= rest.accuracy THEN last ELSE rest

\* line 188: max() walks the keys in insertion order and keeps the first
\* key whose value is greater than every value before it
RECURSIVE MaxKey(_)
MaxKey(dict) ==
    IF Len(dict) = 1 THEN dict[1]
    ELSE LET rest == MaxKey(SubSeq(dict, 1, Len(dict) - 1))
             last == dict[Len(dict)]
         IN IF last.accuracy > rest.accuracy THEN last ELSE rest

\* lines 189-191: the names printed with the mark
Highlighted(dict, best) ==
    LET names == [ i \in DOMAIN dict |-> dict[i].name ]
    IN SelectSeq(names, LAMBDA n : n = best)

\* predictions: the first e test rows are given the next label of the model's
\* labels instead of their own, the other rows are predicted right
Mispredict(truth, e, trainLabels) ==
    [ r \in DOMAIN truth |->
        IF r <= e
        THEN trainLabels[(IndexOf(trainLabels, truth[r]) % Len(trainLabels)) + 1]
        ELSE truth[r] ]

\* the state in which line 175 calls evaluate_model: a registry, here the
\* last entries of the registry of line 159, and a test split
InitEval ==
    /\ pc = "loop"
    /\ err = "none"
    /\ started = << >>
    /\ nFeatures = 0
    /\ \E k \in 2..MaxCategories : classes_ = SortedSeq(1..k)
    /\ \E kept \in SUBSET (0..(MaxCategories - 1)) :
          /\ kept \subseteq 0..(Len(classes_) - 1)
          /\ Cardinality(kept) >= 2
          /\ survivors = kept
    /\ y_resampled = Reencode(survivors)
    /\ top_features = << >>
    /\ selected_features = << >>
    /\ train_columns = << >>
    /\ test_columns = << >>
    /\ fits = [ o \in Objects |-> 0 ]
    /\ fitSources = [ o \in Objects |-> {} ]
    /\ predictedUnfit = {}
    /\ fitsAtStart = [ p \in 1..2 |-> << >> ]
    /\ \E n \in 1..MaxModels :
          models = SubSeq(Registry(1), Len(ModelNames) - Min(n, Len(ModelNames)) + 1,
                          Len(ModelNames))
    /\ models2 = << >>
    /\ metrics = << >>
    /\ eval_metrics = << >>
    /\ best_model = "none"
    /\ csv = << >>
    /\ df = << >>
    /\ df_scaled = << >>
    /\ y_test \in [ 1..TestRows -> y_resampled ]
    /\ Range(y_test) = y_resampled
    /\ y_pred = << >>
    /\ metrics_dict = << >>
    /\ loopIndex = 1
    /\ highlighted = << >>

\* lines 110-139, one pass of the for loop
LoopBody ==
    /\ pc = "loop"
    /\ loopIndex <= Len(models)
    /\ LET entry == models[loopIndex]
           trainLabels == SortedSeq(y_resampled)
       IN \E e \in 0..Len(y_test) :
             LET pred == Mispredict(y_test, e, trainLabels)
             IN /\ y_pred' = pred
                /\ metrics_dict' = DictPut(metrics_dict, entry.name,
                      [ name |-> entry.name,
                        accuracy |-> Correct(y_test, pred),
                        confusion_matrices |-> << ConfusionMatrix(y_test, pred) >>,
                        roc_curves |-> RocCurves(entry, y_test, trainLabels) ])
    /\ loopIndex' = loopIndex + 1
    /\ UNCHANGED << pc, err, started, y_test, highlighted >>
    /\ UNCHANGED << dataVars, fitVars, registryVars, loadVars >>

\* line 154 and line 175: the loop is over, the mapping is returned
Return ==
    /\ pc = "loop"
    /\ loopIndex > Len(models)
    /\ pc' = "best"
    /\ metrics' = [ i \in DOMAIN metrics_dict |-> metrics_dict[i].name ]
    /\ UNCHANGED << err, started, models, models2, eval_metrics, best_model >>
    /\ UNCHANGED << dataVars, fitVars, loadVars, evalVars >>

\* lines 188-191
Summary ==
    /\ pc = "best"
    /\ best_model' = MaxKey(metrics_dict).name
    /\ highlighted' = Highlighted(metrics_dict, MaxKey(metrics_dict).name)
    /\ pc' = "eval2"
    /\ UNCHANGED << err, started, models, models2, metrics, eval_metrics >>
    /\ UNCHANGED << y_test, y_pred, metrics_dict, loopIndex >>
    /\ UNCHANGED << dataVars, fitVars, loadVars >>

NextEval ==
    \/ LoopBody
    \/ Return
    \/ Summary

SpecEval == InitEval /\ [][NextEval]_vars

(***************************************************************************)
(* C1.  After an evaluation pass the model reported as best has an        *)
(* accuracy greater than or equal to that of every model of the metrics   *)
(* mapping; among the models that share the maximum it is the first in    *)
(* insertion order; and exactly one name is printed with the mark.        *)
(***************************************************************************)
C1_BestIsFirstMaximum ==
    pc = "eval2" =>
        \E b \in DOMAIN metrics_dict :
            /\ metrics_dict[b].name = best_model
            /\ \A i \in DOMAIN metrics_dict :
                  /\ metrics_dict[b].accuracy >= metrics_dict[i].accuracy
                  /\ metrics_dict[i].accuracy = metrics_dict[b].accuracy => b <= i
            /\ highlighted = << best_model >>

\* two models tie at the maximum and a third one is below it
C1_Witness ==
    /\ pc = "eval2"
    /\ \E i, j, k \in DOMAIN metrics_dict :
          /\ i < j
          /\ metrics_dict[i].accuracy = metrics_dict[j].accuracy
          /\ metrics_dict[k].accuracy < metrics_dict[i].accuracy
          /\ \A l \in DOMAIN metrics_dict :
                metrics_dict[l].accuracy <= metrics_dict[i].accuracy
          /\ best_model = metrics_dict[i].name

(***************************************************************************)
(* C5.  For the model evaluated last, row i and column i of its confusion *)
(* matrix count the test rows whose true, respectively predicted, class   *)
(* is label_encoder.classes_[i]; the matrix has as many rows and columns  *)
(* as label_encoder.classes_.                                             *)
(***************************************************************************)
C5_MatrixFollowsEncoder ==
    (pc = "loop" /\ loopIndex > 1) =>
        LET cm == metrics_dict[loopIndex - 1].confusion_matrices[1]
        IN /\ Len(cm) = Len(classes_)
           /\ \A i \in DOMAIN classes_ :
                 /\ Len(cm[i]) = Len(classes_)
                 /\ \A j \in DOMAIN classes_ :
                       cm[i][j] = Cardinality({ r \in DOMAIN y_test :
                                     /\ Category(y_test[r]) = classes_[i]
                                     /\ Category(y_pred[r]) = classes_[j] })

(***************************************************************************)
(* C6.  With n >= 2 classes in the test labels, the record of a model     *)
(* with predict_proba holds n curves, curve i computed from the indicator *)
(* of class i and the probability column of class i; the record of a      *)
(* model without predict_proba holds no curve.                            *)
(***************************************************************************)
C6_OneCurvePerClass ==
    \A k \in DOMAIN metrics_dict :
        LET rec == metrics_dict[k]
            classes == Unique(y_test)
        IN Len(classes) >= 2 =>
              IF HasPredictProba(rec.name)
              THEN /\ Len(rec.roc_curves) = Len(classes)
                   /\ \A i \in DOMAIN classes :
                         /\ rec.roc_curves[i].truth = Indicator(y_test, classes[i])
                         /\ rec.roc_curves[i].scoreOf = classes[i]
              ELSE rec.roc_curves = << >>

(***************************************************************************)
(* Claims about the whole script (Spec).                                  *)
(***************************************************************************)
Names(registry) == { registry[i].name : i \in DOMAIN registry }

Distinct(s) == \A i, j \in DOMAIN s : i # j => s[i] # s[j]

(***************************************************************************)
(* C2.  The mapping returned by each call of evaluate_model has exactly   *)
(* the names of the registry it was given as keys, one record per entry;  *)
(* for the script's two registries these are 10 records in each pass.     *)
(***************************************************************************)
C2_OneRecordPerModel ==
    /\ pc \in { "best", "eval2", "plots", "done" } =>
          /\ Range(metrics) = Names(models)
          /\ Distinct(metrics)
          /\ Len(metrics) = 10
    /\ pc \in { "plots", "done" } =>
          /\ Range(eval_metrics) = Names(models2)
          /\ Distinct(eval_metrics)
          /\ Len(eval_metrics) = 10

C2_Witness ==
    /\ pc = "done"
    /\ Len(metrics) = 10
    /\ Len(eval_metrics) = 10
    /\ Names(models2) = Range(eval_metrics)

(***************************************************************************)
(* C3 as stated.  Every estimator of a registry is unfit when the pass    *)
(* that receives the registry begins, and is fit exactly once during the  *)
(* pass, before its predict.                                              *)
(***************************************************************************)
FitOnceInPass ==
    /\ pc = "best" =>
          \A i \in DOMAIN models :
              fits[models[i].obj] = fitsAtStart[1][i] + 1
    /\ pc = "plots" =>
          \A i \in DOMAIN models2 :
              fits[models2[i].obj] = fitsAtStart[2][i] + 1
    /\ predictedUnfit = {}

C3_UnfitAtPassStart ==
    /\ \A p \in 1..2 : \A i \in DOMAIN fitsAtStart[p] : fitsAtStart[p][i] = 0
    /\ FitOnceInPass

(***************************************************************************)
(* C3 amended.  Every estimator of a registry other than the "XGBoost"    *)
(* entry is unfit when its pass begins; the "XGBoost" entry, one object   *)
(* in both registries, has been fit twice before the first pass (the      *)
(* refit of the search, line 95) and three times before the second; and   *)
(* every entry is fit exactly once during the pass, before its predict.   *)
(***************************************************************************)
C3_UnfitExceptTuned ==
    /\ \A p \in 1..2 : \A i \in DOMAIN fitsAtStart[p] :
          fitsAtStart[p][i] = IF ModelNames[i] = "XGBoost" THEN p + 1 ELSE 0
    /\ FitOnceInPass

C3_Witness ==
    /\ pc = "plots"
    /\ Len(fitsAtStart[2]) = 10
    /\ fitsAtStart[1][7] = 2
    /\ fitsAtStart[2][7] = 3
    /\ fits[best_xgb] = 4

(***************************************************************************)
(* C4.  No fit call made after the split receives a row or a label of the *)
(* test split.                                                            *)
(***************************************************************************)
C4_NoTestRowInFit ==
    \A o \in Objects : "test" \notin fitSources[o]

(***************************************************************************)
(* C7.  The stages run in the order Loader, Scaler, Resampler, Selector,  *)
(* split, Tuner, Evaluator, none skipped and none run again after a later *)
(* one has started; the scaler is fit exactly once, on the whole          *)
(* deduplicated table, before the split.                                  *)
(***************************************************************************)
C7_StagesInOrder ==
    /\ \A i \in DOMAIN started :
          IF i = 1 THEN started[i] = 1
          ELSE started[i] - started[i - 1] \in { 0, 1 }
    /\ fits[scalerObj] <= 1
    /\ (\E i \in DOMAIN started : started[i] >= 3) =>
          /\ fits[scalerObj] = 1
          /\ fitSources[scalerObj] = { "full" }
    /\ pc = "done" => Range(started) = 1..7

C7_Witness ==
    /\ pc = "done"
    /\ fits[scalerObj] = 1
    /\ started[Len(started)] = 7

(***************************************************************************)
(* C8.  For any number F >= 1 of feature columns the selector does not    *)
(* fail and returns at most min(40, F) distinct names, all among the top  *)
(* min(60, F) by importance; the train and the test split have the same   *)
(* columns.                                                               *)
(***************************************************************************)
C8_SelectorClamps ==
    /\ err # "select_b"
    /\ pc \in { "split", "tune", "refit", "models", "eval1", "best", "eval2",
                "plots", "done" } =>
          /\ Len(top_features) = Min(60, nFeatures)
          /\ Len(selected_features) <= Min(40, nFeatures)
          /\ Distinct(selected_features)
          /\ Range(selected_features) \subseteq Range(top_features)
    /\ pc \in { "tune", "refit", "models", "eval1", "best", "eval2",
                "plots", "done" } =>
          /\ train_columns = selected_features
          /\ test_columns = selected_features

(***************************************************************************)
(* C9.  A stage that cannot produce its output (unreadable file, a class  *)
(* empty or too small at resampling, every tuning trial failing) ends the *)
(* run in an error at that stage: no later stage starts and no metrics or *)
(* best model are reported.                                               *)
(***************************************************************************)
ClassEmptied == survivors # {} /\ Cardinality(survivors) < Len(classes_)

C9_FailureEndsRun ==
    /\ err # "none" =>
          /\ pc = "error"
          /\ started[Len(started)] = StageOf(err)
          /\ metrics = << >>
          /\ eval_metrics = << >>
          /\ best_model = "none"
    /\ ClassEmptied => (pc = "error" /\ err = "resample")

====
